---- MODULE Spec2Model ----
(***************************************************************************)
(* Model of the Little Alchemy 2 helper: the GameStatus object             *)
(* (src/src/structures/game_status.rs), its path resolver                  *)
(* (src/src/structures/path.rs) and the Combination / History helpers.     *)
(*                                                                         *)
(* A GameStatus is built by GameStatus::new (which runs check()); after    *)
(* that the public operations check(), combine(), obtain() and             *)
(* finish_game() are called on it.  obtain() and finish_game() contain the *)
(* only unbounded loops of the program; each loop is modelled with one     *)
(* state per loop position so that a run that never leaves the loop is an  *)
(* infinite behaviour of the model.                                        *)
(***************************************************************************)
EXTENDS Integers, Sequences, FiniteSets, TLC

VARIABLES
    elements,                      \* GameStatus.elements: id -> AlchemyElement
    order,                         \* iteration order of the HashMap behind ElementsList
    history,                       \* GameStatus.history: Vec of combinations
    acquired_elements,             \* GameStatus.acquired_elements: Vec<u16>
    overflow_checks,               \* build profile: TRUE = arithmetic overflow panics
    std_search,                    \* toolchain: the slice::binary_search the build links
    checks,                        \* number of check() calls made after construction
    pc,                            \* position of the single thread of control
    element_id,                    \* obtain: the target
    element_to_combinations,       \* obtain: the memo (HashMap<u16, PathToCombinationList>)
    recursive,                     \* obtain: the driver's flag
    ret,                           \* obtain: value returned by the last advance_one_level
    panic_at,                      \* obtain: the check that aborted the last call ("" if none)
    combinations,                  \* finish_game: combinations recorded so far
    working_acquired,              \* finish_game: its local acquired_elements
    remaining_elements_to_create,  \* finish_game: the remaining-work map
    result,                        \* list returned by obtain / finish_game
    earlier,                       \* list returned by an earlier run on the same input
    args,                          \* arguments of a function applied on its own
    value                          \* the value it returned

objVars == <<elements, order, history, acquired_elements, overflow_checks, std_search, checks>>
obtainVars == <<element_id, element_to_combinations, recursive, ret, panic_at>>
finishVars == <<combinations, working_acquired, remaining_elements_to_create>>
auxVars == <<earlier, args, value>>
vars == <<objVars, pc, obtainVars, finishVars, result, auxVars>>

(***************************************************************************)
(* Bounds of the model.                                                    *)
(***************************************************************************)
\* check() may be called again this many times after construction.
MaxChecks == 1
\* finish_game's sweep is not followed once its working list is longer than this
\* (its forward pass pushes an unlocked element again on every sweep).
MaxWorkingLen == 8

(***************************************************************************)
(* Generic helpers on Vec-like sequences.                                  *)
(***************************************************************************)
\* Vec::contains / slice::contains on ids.
Contains(s, x) == \E i \in 1..Len(s) : s[i] = x

Range(s) == {s[i] : i \in 1..Len(s)}

\* The member of a one-element set.  {F(x) : x \in {e}} computes e once and
\* then F of its value; the loops below thread their state this way.
TheOne(S) == CHOOSE x \in S : TRUE

RECURSIVE SortedSeq(_)
\* The ascending list of the members of a finite set of numbers.
SortedSeq(S) ==
    IF S = {} THEN <<>>
    ELSE LET m == CHOOSE x \in S : \A y \in S : x <= y
         IN <<m>> \o SortedSeq(S \ {m})

\* Vec::swap_remove(index): the last element takes the place of the removed one.
SwapRemove(s, i) ==
    LET n == Len(s)
    IN [k \in 1..(n - 1) |-> IF k = i THEN s[n] ELSE s[k]]

RECURSIVE BinarySearchFrom(_, _, _, _)
\* slice::binary_search: 0 for Err, otherwise the (1-based) index found.  The
\* list it is used on can be unsorted after swap_remove; the halving search is
\* followed step by step so that a miss on an unsorted list is reproduced.
BinarySearchFrom(s, x, left, right) ==
    IF left >= right THEN 0
    ELSE LET mid == left + ((right - left) \div 2)
         IN IF s[mid + 1] < x THEN BinarySearchFrom(s, x, mid + 1, right)
            ELSE IF s[mid + 1] > x THEN BinarySearchFrom(s, x, left, mid)
            ELSE mid + 1

BinarySearch(s, x) == BinarySearchFrom(s, x, 0, Len(s))

RECURSIVE BinarySearchBranchlessFrom(_, _, _, _)
\* slice::binary_search as the standard library implements it since Rust
\* 1.82: the window is halved without testing for equality and the element
\* left at its base is compared at the end.  0 for Err.
BinarySearchBranchlessFrom(s, x, base, size) ==
    IF size > 1
    THEN LET half == size \div 2
             mid == base + half
         IN BinarySearchBranchlessFrom(s, x, IF s[mid + 1] > x THEN base ELSE mid,
                                       size - half)
    ELSE IF s[base + 1] = x THEN base + 1 ELSE 0

BinarySearchBranchless(s, x) ==
    IF s = <<>> THEN 0 ELSE BinarySearchBranchlessFrom(s, x, 0, Len(s))

\* The result of slice::binary_search is unspecified on a list that is not
\* sorted: it is the one of the implementation the build links.
slice_binary_search(build, s, x) ==
    IF build = "branchless" THEN BinarySearchBranchless(s, x) ELSE BinarySearch(s, x)

(***************************************************************************)
(* Combination (src/src/structures/mod.rs).  A combination is the pair     *)
(* <<c[1], c[2]>> of the tuple struct's fields .0 and .1.                   *)
(***************************************************************************)
\* The operand-order-sensitive comparison a derived PartialEq would give.
CombEqOrdered(c, d) == c[1] = d[1] /\ c[2] = d[2]

\* impl PartialEq for Combination.
CombEq(c, d) ==
    \/ c[1] = d[1] /\ c[2] = d[2]
    \/ c[1] = d[2] /\ c[2] = d[1]

\* Vec<Combination>::contains, which uses PartialEq.
CombIn(list, c) == \E i \in 1..Len(list) : CombEq(list[i], c)

\* Combination::contains: true if ANY of the two operands is in ids.
CombinationContains(c, ids) == Contains(ids, c[1]) \/ Contains(ids, c[2])

\* History::has_combination compared field by field.
has_combination_ordered(h, c) == \E i \in 1..Len(h) : CombEqOrdered(h[i], c)

\* History::has_combination.
has_combination(h, c) == \E i \in 1..Len(h) : CombEq(h[i], c)

(***************************************************************************)
(* Condition (src/src/structures/condition.rs).                            *)
(***************************************************************************)
CondNone == [type |-> "None", total |-> 0, elements |-> <<>>, min |-> 0]
CondProgress(total) == [type |-> "Progress", total |-> total, elements |-> <<>>, min |-> 0]
CondElements(ids, min) == [type |-> "Elements", total |-> 0, elements |-> ids, min |-> min]

(***************************************************************************)
(* AlchemyElement (src/src/structures/mod.rs) and the element graphs the   *)
(* model is run on.  An element is the record                              *)
(*   [id, combinations, prime, final_, condition, can_create];             *)
(* name, base and hidden are never read by the modelled operations.        *)
(***************************************************************************)
\* Element descriptions before their id and can_create list are filled in.
Prime == [combinations |-> <<>>, prime |-> TRUE, final_ |-> FALSE, condition |-> CondNone]
Made(combs) == [combinations |-> combs, prime |-> FALSE, final_ |-> FALSE, condition |-> CondNone]
Locked(combs, cond) == [combinations |-> combs, prime |-> FALSE, final_ |-> FALSE, condition |-> cond]

\* The ids of the elements that list id in one of their combinations.
Producers(els, id) ==
    {k \in DOMAIN els :
        \E i \in 1..Len(els[k].combinations) :
            els[k].combinations[i][1] = id \/ els[k].combinations[i][2] = id}

\* The list check_can_create derives for id: pushed ids, sort_unstable, dedup.
DerivedCanCreate(els, id) == SortedSeq(Producers(els, id))

\* The element map of a data file whose "c" lists are the derived ones; the
\* key of the map becomes the id (ElementsListVisitor::visit_map).
Graph(protos) ==
    [id \in DOMAIN protos |->
        [id |-> id,
         combinations |-> protos[id].combinations,
         prime |-> protos[id].prime,
         final_ |-> protos[id].final_,
         condition |-> protos[id].condition,
         can_create |-> DerivedCanCreate(protos, id)]]

\* AlchemyElement::is_final as used by check_final.
is_final(e) == e.final_

\* check_can_create: FALSE when its assertion fails.  Only the ids that occur
\* in some combination have an entry in the scratch map and are compared.
check_can_create(els) ==
    \A id \in DOMAIN els :
        Producers(els, id) # {} => els[id].can_create = DerivedCanCreate(els, id)

\* check_final: FALSE when its assertion fails.
check_final(els) ==
    \A id \in DOMAIN els : is_final(els[id]) => els[id].can_create = <<>>

(***************************************************************************)
(* Seeding and extension of the acquired list (game_status.rs).            *)
(***************************************************************************)
RECURSIVE AddPrimeFrom(_, _, _, _)
AddPrimeFrom(els, ord, i, acq) ==
    IF i > Len(ord) THEN acq
    ELSE AddPrimeFrom(els, ord, i + 1,
                      IF els[ord[i]].prime THEN Append(acq, ord[i]) ELSE acq)

\* add_prime_elements starting from an empty list instead of pushing onto
\* the list it is given.
add_prime_elements_reseed(els, ord, acq) == AddPrimeFrom(els, ord, 1, <<>>)

\* GameStatus::add_prime_elements: every prime element is pushed.
add_prime_elements(els, ord, acq) == AddPrimeFrom(els, ord, 1, acq)

\* The Progress arm of add_unlocked_elements: acquired_elements.len() > total.
ProgressUnlocked(acq, total) == Len(acq) > total

RECURSIVE ElementsCountFrom(_, _, _, _, _)
\* The Elements arm of add_unlocked_elements: walk the acquired list, count
\* the entries that are in the condition's list, stop at the first count >= min.
ElementsCountFrom(acq, ids, min, i, count) ==
    IF i > Len(acq) THEN FALSE
    ELSE IF Contains(ids, acq[i])
         THEN (IF count + 1 >= min THEN TRUE
               ELSE ElementsCountFrom(acq, ids, min, i + 1, count + 1))
         ELSE ElementsCountFrom(acq, ids, min, i + 1, count)

ElementsUnlocked(acq, ids, min) == ElementsCountFrom(acq, ids, min, 1, 0)

\* One iteration of the loop of add_unlocked_elements, for the element item.
UnlockItem(item, acq) ==
    IF item.condition.type = "Progress"
    THEN (IF ProgressUnlocked(acq, item.condition.total) THEN Append(acq, item.id) ELSE acq)
    ELSE IF item.condition.type = "Elements"
    THEN (IF ElementsUnlocked(acq, item.condition.elements, item.condition.min)
          THEN Append(acq, item.id) ELSE acq)
    ELSE acq

RECURSIVE AddUnlockedFrom(_, _, _, _)
AddUnlockedFrom(els, ord, i, acq) ==
    IF i > Len(ord) THEN acq
    ELSE TheOne({AddUnlockedFrom(els, ord, i + 1, next) :
                    next \in {UnlockItem(els[ord[i]], acq)}})

\* GameStatus::add_unlocked_elements: one forward pass over the elements.
add_unlocked_elements(els, ord, acq) == AddUnlockedFrom(els, ord, 1, acq)

\* The acquired list after the two passes of GameStatus::check.
CheckAcquired(els, ord, acq) ==
    add_unlocked_elements(els, ord, add_prime_elements(els, ord, acq))

RECURSIVE GetFromCombinationFrom(_, _, _, _)
GetFromCombinationFrom(els, ord, c, i) ==
    IF i > Len(ord) THEN <<>>
    ELSE (IF CombIn(els[ord[i]].combinations, c) THEN <<ord[i]>> ELSE <<>>)
         \o GetFromCombinationFrom(els, ord, c, i + 1)

\* ElementsList::get_from_combination: the ids of the elements produced by c.
get_from_combination(els, ord, c) == GetFromCombinationFrom(els, ord, c, 1)

RECURSIVE PushNewFrom(_, _, _)
PushNewFrom(ids, i, acq) ==
    IF i > Len(ids) THEN acq
    ELSE PushNewFrom(ids, i + 1, IF Contains(acq, ids[i]) THEN acq ELSE Append(acq, ids[i]))

\* combine pushing every produced id without looking whether it is acquired.
CombineAcquiredPushAll(els, ord, acq, c) == acq \o get_from_combination(els, ord, c)

\* The acquired list after GameStatus::combine(c).
CombineAcquired(els, ord, acq, c) == PushNewFrom(get_from_combination(els, ord, c), 1, acq)

\* GameStatus::can_do_combination.
can_do_combination(acq, c) == Contains(acq, c[1]) /\ Contains(acq, c[2])

(***************************************************************************)
(* The path resolver (src/src/structures/path.rs).                         *)
(*                                                                         *)
(* A PathToCombination is the pair of the ids of its two operands; a       *)
(* PathToCombinationList is the record [combs, min].  A call of            *)
(* advance_one_level yields the record                                     *)
(*   [memo, rh, ok, chain, panic, failed]                                  *)
(* memo and rh being element_to_combinations and recursive_history after   *)
(* the call, ok = TRUE for Ok(()), ok = FALSE with the chain for           *)
(* Err(chain), and panic = TRUE when an assertion or a checked arithmetic  *)
(* operation aborted the program, failed then naming it.                   *)
(***************************************************************************)
\* usize values wrap modulo 2^64 in a build without overflow checks.  The
\* model's integers are 32 bits wide, so the modulus is represented by 2^30,
\* which lies above every length and counter of the model just as 2^64 does.
UsizeModulus == 2^30

\* a - b on usize: [val, overflow].
USub(a, b) ==
    IF a >= b THEN [val |-> a - b, overflow |-> FALSE]
    ELSE [val |-> UsizeModulus + a - b, overflow |-> TRUE]

RECURSIVE AllCombinationsFrom(_, _, _)
AllCombinationsFrom(els, ord, i) ==
    IF i > Len(ord) THEN <<>>
    ELSE els[ord[i]].combinations \o AllCombinationsFrom(els, ord, i + 1)

\* data.elements.iter().flat_map(|x| &x.combinations): every combination of
\* the graph, in the iteration order of the element map.
AllCombinations(els, ord) == AllCombinationsFrom(els, ord, 1)

RECURSIVE ElementsCandidatesFrom(_, _, _, _, _, _)
\* The loop of the Elements arm of get_path_to_combinations: [combs, already].
ElementsCandidatesFrom(els, acq, ids, i, combs, already) ==
    IF i > Len(ids) THEN [combs |-> combs, already |-> already]
    ELSE IF Contains(acq, ids[i])
         THEN ElementsCandidatesFrom(els, acq, ids, i + 1, combs, already + 1)
         ELSE ElementsCandidatesFrom(els, acq, ids, i + 1,
                                     combs \o els[ids[i]].combinations, already)

\* The match on the condition of a non-acquired, non-prime element
\* (path.rs:45-77): [combs, min, panic].
ConditionPath(id) ==
    LET e == elements[id]
    IN IF e.condition.type = "None"
       THEN [combs |-> e.combinations, min |-> 1, panic |-> FALSE]
       ELSE IF e.condition.type = "Progress"
       THEN LET d == USub(e.condition.total, Len(acquired_elements))
            IN [combs |-> AllCombinations(elements, order),
                min |-> d.val,
                panic |-> d.overflow /\ overflow_checks]
       ELSE LET c == ElementsCandidatesFrom(elements, acquired_elements,
                                            e.condition.elements, 1, e.combinations, 0)
                d == USub(e.condition.min, c.already)
            IN [combs |-> c.combs,
                min |-> d.val,
                panic |-> (d.overflow /\ overflow_checks) \/ ~(d.val > 0)]

\* get_path_to_combinations without its first branch: an acquired or prime
\* element is matched on its condition like any other.
get_path_without_shortcut(id) == ConditionPath(id)

\* PathToElement::get_path_to_combinations for the element id: [combs, min, panic].
get_path_to_combinations(id) ==
    IF Contains(acquired_elements, id) \/ elements[id].prime
    THEN [combs |-> <<>>, min |-> 0, panic |-> FALSE]
    ELSE ConditionPath(id)

\* Results of a call of advance_one_level.
AdvOk(memo, rh) ==
    [memo |-> memo, rh |-> rh, ok |-> TRUE, chain |-> <<>>, panic |-> FALSE, failed |-> ""]
AdvErr(memo, rh, chain) ==
    [memo |-> memo, rh |-> rh, ok |-> FALSE, chain |-> chain, panic |-> FALSE, failed |-> ""]
AdvPanic(memo, rh, failed) ==
    [memo |-> memo, rh |-> rh, ok |-> TRUE, chain |-> <<>>, panic |-> TRUE, failed |-> failed]

\* The flag of the caller handed on to the operand: the loop over the
\* candidates only runs in a recursive call.
OperandRecursiveInherited(memo, rh, id) == TRUE

\* The flag advance_one_level passes for an operand (path.rs:131-132): the
\* recorded one, or else whether the memo already holds the operand.
OperandRecursive(memo, rh, id) ==
    IF id \in DOMAIN rh THEN rh[id] ELSE id \in DOMAIN memo

\* recursive_history after the entry(..).or_insert_with(..) of path.rs:131.
OperandHistory(memo, rh, id) ==
    IF id \in DOMAIN rh THEN rh ELSE (id :> (id \in DOMAIN memo)) @@ rh

\* A candidate counting as ready as soon as one operand is satisfied.
CandidateReadyAny(r0, r1) == ~r0.ok \/ ~r1.ok

\* matched == 2 (path.rs:141): both operands returned Err.
CandidateReady(r0, r1) == ~r0.ok /\ ~r1.ok

\* final_chain of a candidate: the chains of the operands that returned Err.
FinalChain(r0, r1) ==
    (IF r0.ok THEN <<>> ELSE r0.chain) \o (IF r1.ok THEN <<>> ELSE r1.chain)

RECURSIVE advance_one_level(_, _, _, _, _)
RECURSIVE AdvanceCombs(_, _, _, _, _, _, _, _, _)
RECURSIVE AfterFirstOperand(_, _, _, _, _, _, _, _)
RECURSIVE AfterCandidate(_, _, _, _, _, _, _, _, _)
RECURSIVE Expand(_, _, _, _)

\* The end of one iteration of the loop over the candidates (path.rs:141-148),
\* r0 and r1 being the results of the calls for the two operands.
AfterCandidate(id, combs, min, i, current_path, counter, chains, r0, r1) ==
    IF r1.panic THEN AdvPanic(r1.memo, r1.rh, r1.failed)
    ELSE IF CandidateReady(r0, r1)
    THEN (IF counter + 1 >= min
          THEN AdvErr(r1.memo, r1.rh, chains \o FinalChain(r0, r1) \o <<combs[i]>>)
          ELSE AdvanceCombs(id, combs, min, i + 1, r1.memo, current_path, r1.rh,
                            counter + 1, chains \o FinalChain(r0, r1) \o <<combs[i]>>))
    ELSE AdvanceCombs(id, combs, min, i + 1, r1.memo, current_path, r1.rh,
                      counter, chains)

\* The call for the second operand (path.rs:128-140), r0 being the result of
\* the call for the first one.
AfterFirstOperand(id, combs, min, i, current_path, counter, chains, r0) ==
    IF r0.panic THEN AdvPanic(r0.memo, r0.rh, r0.failed)
    ELSE TheOne({AfterCandidate(id, combs, min, i, current_path, counter, chains, r0, r1) :
                    r1 \in {advance_one_level(combs[i][2], r0.memo,
                                              Append(current_path, id),
                                              OperandHistory(r0.memo, r0.rh, combs[i][2]),
                                              OperandRecursive(r0.memo, r0.rh, combs[i][2]))}})

\* The loop over the candidates (path.rs:118-150), from candidate i on, with
\* counter successes so far and chains = ret_chains.concat().
AdvanceCombs(id, combs, min, i, memo, current_path, rh, counter, chains) ==
    IF i > Len(combs) THEN AdvOk(memo, rh)
    ELSE TheOne({AfterFirstOperand(id, combs, min, i, current_path, counter, chains, r0) :
                    r0 \in {advance_one_level(combs[i][1], memo,
                                              Append(current_path, id),
                                              OperandHistory(memo, rh, combs[i][1]),
                                              OperandRecursive(memo, rh, combs[i][1]))}})

\* path.rs:93-104: the memo entry of id is filled in on the first visit (and
\* recursive must then be false); on a later visit recursive_history[id]
\* becomes false.  [memo, rh, panic, failed].
VisitEntry(id, memo, rh, rec) ==
    IF id \in DOMAIN memo
    THEN [memo |-> memo, rh |-> (id :> FALSE) @@ rh, panic |-> FALSE, failed |-> ""]
    ELSE TheOne({[memo |-> IF got.panic THEN memo
                           ELSE (id :> [combs |-> got.combs, min |-> got.min]) @@ memo,
                  rh |-> rh,
                  panic |-> got.panic \/ rec,
                  failed |-> IF got.panic THEN "get_path_to_combinations"
                             ELSE IF rec THEN "assert!(!recursive)" ELSE ""] :
                    got \in {get_path_to_combinations(id)}})

\* path.rs:105-150 for the element id, e being the result of VisitEntry.
Expand(id, e, current_path, rec) ==
    IF e.panic THEN AdvPanic(e.memo, e.rh, e.failed)
    ELSE IF e.memo[id].combs = <<>>
    THEN (IF e.memo[id].min # 0 THEN AdvPanic(e.memo, e.rh, "assert_eq!(min, 0)")
          ELSE AdvErr(e.memo, e.rh, <<>>))
    ELSE IF ~rec THEN AdvOk(e.memo, e.rh)
    ELSE AdvanceCombs(id, e.memo[id].combs, e.memo[id].min, 1, e.memo, current_path,
                      e.rh, 0, <<>>)

\* PathToElement::advance_one_level for the element id.
advance_one_level(id, memo, current_path, rh, rec) ==
    IF Contains(current_path, id) THEN AdvOk(memo, rh)
    ELSE TheOne({Expand(id, e, current_path, rec) : e \in {VisitEntry(id, memo, rh, rec)}})

\* The empty HashMap.
EmptyMap == [x \in {} |-> 0]

(***************************************************************************)
(* finish_game (game_status.rs:227-270).  The state of its loops is the    *)
(* record [combinations, acquired, remaining].                             *)
(***************************************************************************)
\* remaining_elements_to_create as built before the while loop: the elements
\* that are not acquired and have a non-empty can_create list.
InitialRemaining(els, acq) ==
    [k \in {k \in DOMAIN els : ~Contains(acq, k) /\ els[k].can_create # <<>>}
        |-> els[k].can_create]

\* The map without the key k.
MapRemove(m, k) == [x \in DOMAIN m \ {k} |-> m[x]]

\* game_status.rs:254-261: drop created from the entry of element; the entry
\* is removed from the map when it becomes empty.
RemainingAfter(remaining, element, created) ==
    IF element \notin DOMAIN remaining THEN remaining
    ELSE LET index == slice_binary_search(std_search, remaining[element], created)
         IN IF index = 0 THEN remaining
            ELSE LET rest == SwapRemove(remaining[element], index)
                 IN IF rest = <<>> THEN MapRemove(remaining, element)
                    ELSE [remaining EXCEPT ![element] = rest]

\* The body of the innermost loop (game_status.rs:246-262) for one
\* combination of the created element.
SweepCombination(st, element, created, combination) ==
    IF CombinationContains(combination, st.acquired)
    THEN [combinations |->
              IF ~CombIn(st.combinations, combination)
                 /\ ~has_combination(history, combination)
              THEN Append(st.combinations, combination)
              ELSE st.combinations,
          acquired |->
              IF ~Contains(st.acquired, created)
              THEN Append(st.acquired, created)
              ELSE st.acquired,
          remaining |-> RemainingAfter(st.remaining, element, created)]
    ELSE st

RECURSIVE SweepCombinationsFrom(_, _, _, _)
SweepCombinationsFrom(st, element, created, k) ==
    IF k > Len(elements[created].combinations) THEN st
    ELSE TheOne({SweepCombinationsFrom(next, element, created, k + 1) :
                    next \in {SweepCombination(st, element, created,
                                               elements[created].combinations[k])}})

RECURSIVE SweepCreatedFrom(_, _, _)
SweepCreatedFrom(st, element, j) ==
    IF j > Len(elements[element].can_create) THEN st
    ELSE TheOne({SweepCreatedFrom(next, element, j + 1) :
                    next \in {SweepCombinationsFrom(st, element,
                                                    elements[element].can_create[j], 1)}})

RECURSIVE SweepAcquiredFrom(_, _, _)
SweepAcquiredFrom(st, snapshot, i) ==
    IF i > Len(snapshot) THEN st
    ELSE TheOne({SweepAcquiredFrom(next, snapshot, i + 1) :
                    next \in {SweepCreatedFrom(st, snapshot[i], 1)}})

\* One iteration of the while loop: the sweep over acquired_elements.clone()
\* followed by add_unlocked_elements on the working list.
Sweep(st) ==
    TheOne({[swept EXCEPT !.acquired = add_unlocked_elements(elements, order, swept.acquired)] :
               swept \in {SweepAcquiredFrom(st, st.acquired, 1)}})

(***************************************************************************)
(* The element graphs, iteration orders and histories the model starts     *)
(* from.  Ids are 1..n; in every graph 1 is prime.                          *)
(***************************************************************************)
\* A, B prime; C produced by (A, B).
GraphABC == Graph(<<Prime, Prime, Made(<< <<1, 2>> >>)>>)

\* X = 3 produced by (Y, prime1), Y = 4 produced by (X, prime2).
GraphCycle == Graph(<<Prime, Prime, Made(<< <<4, 1>> >>), Made(<< <<3, 2>> >>)>>)

\* W = 3 = (A, B); Y = 4 = (W, A); Z = 5 = (W, B); X = 6 = (Y, Z).
GraphDiamond ==
    Graph(<<Prime, Prime, Made(<< <<1, 2>> >>), Made(<< <<3, 1>> >>),
            Made(<< <<3, 2>> >>), Made(<< <<4, 5>> >>)>>)

\* Y = 3 = (A, B); X = 4 = (Y, Y).
GraphTwice == Graph(<<Prime, Prime, Made(<< <<1, 2>> >>), Made(<< <<3, 3>> >>)>>)

\* U = 2 is not prime and has no combination; V = 3 is produced by (U, A).
GraphUnsatisfiable == Graph(<<Prime, Made(<<>>), Made(<< <<2, 1>> >>)>>)

\* 3 = (A, B); 4 is unlocked by Progress(3).
GraphProgress ==
    Graph(<<Prime, Prime, Made(<< <<1, 2>> >>), Locked(<<>>, CondProgress(3))>>)

\* 3 = (A, B); 4 is unlocked by one of {3}; 2 by Progress(2).
GraphElements ==
    Graph(<<Prime, Locked(<<>>, CondProgress(2)), Made(<< <<1, 1>> >>),
            Locked(<<>>, CondElements(<<3>>, 1))>>)

\* 3 = (A, A); 2 is unlocked by none of {3}; 4 by two of {A, 3}.
GraphThreshold ==
    Graph(<<Prime, Locked(<<>>, CondElements(<<3>>, 0)), Made(<< <<1, 1>> >>),
            Locked(<<>>, CondElements(<<1, 3>>, 2))>>)

\* 2 = (A, A) and 3 = (A, A): one pair produces two elements; 4 is unlocked
\* by Progress(3).
GraphShared ==
    Graph(<<Prime, Made(<< <<1, 1>> >>), Made(<< <<1, 1>> >>), Locked(<<>>, CondProgress(3))>>)

\* X = 2 = (A, A); 3, 4, 5, 6 and 7 are each produced by (X, A).
GraphFan ==
    Graph(<<Prime, Made(<< <<1, 1>> >>), Made(<< <<2, 1>> >>), Made(<< <<2, 1>> >>),
            Made(<< <<2, 1>> >>), Made(<< <<2, 1>> >>), Made(<< <<2, 1>> >>)>>)

Catalogue ==
    {GraphABC, GraphCycle, GraphDiamond, GraphTwice, GraphUnsatisfiable,
     GraphProgress, GraphElements, GraphThreshold, GraphShared, GraphFan}

\* The production lists tried for the two non-prime elements of the family.
\* Element 3: no combination, or one of primes, of itself or of element 4.
FamilyLists3 ==
    {<<>>} \cup {<<c>> : c \in {<<1, 2>>, <<1, 1>>, <<4, 1>>, <<4, 4>>, <<2, 4>>}}

\* Element 4: any single combination over 1..4, or a first candidate that
\* involves a non-prime element followed by an alternative.
FamilyLists4 ==
    {<<c>> : c \in {<<a, b>> : a \in 1..4, b \in 1..4}}
    \cup {<<c, d>> : c \in {<<3, 3>>, <<3, 1>>, <<4, 1>>, <<3, 4>>},
                     d \in {<<1, 2>>, <<3, 2>>, <<2, 2>>}}

\* Graphs with primes 1, 2 and None-condition elements 3, 4.
Family == {Graph(<<Prime, Prime, Made(c3), Made(c4)>>) : c3 \in FamilyLists3, c4 \in FamilyLists4}

InitGraphs == Catalogue \cup Family

HasCondition(els) == \E id \in DOMAIN els : els[id].condition.type # "None"

Ascending(els) == [i \in 1..Len(els) |-> i]
Descending(els) == [i \in 1..Len(els) |-> Len(els) + 1 - i]
AllOrders(els) ==
    {p \in [1..Len(els) -> 1..Len(els)] : \A i, j \in 1..Len(els) : i # j => p[i] # p[j]}

\* The iteration orders of the HashMap tried for a graph.  The order is
\* arbitrary; every order is tried where a condition makes seeding depend on
\* it, the two extreme ones elsewhere.
Orders(els) ==
    IF HasCondition(els) THEN AllOrders(els) ELSE {Ascending(els), Descending(els)}

\* The first production combination of the lowest element that has one.
FirstCombination(els) ==
    LET made == {k \in DOMAIN els : els[k].combinations # <<>>}
        k == CHOOSE x \in made : \A y \in made : x <= y
    IN IF made = {} THEN <<1, 1>> ELSE els[k].combinations[1]

\* The histories tried: empty, or one record of that combination in either
\* operand order.
Histories(els) ==
    LET c == FirstCombination(els)
    IN {<<>>, <<c>>, << <<c[2], c[1]>> >>}

\* The standard libraries tried: the two implementations of binary_search
\* only differ on a list that swap_remove has left unsorted and that still
\* holds three ids, i.e. where an element that is not acquired stores five
\* ids or more.
Toolchains(els) ==
    IF \E k \in DOMAIN els : ~els[k].prime /\ Len(els[k].can_create) >= 5
    THEN {"early_return", "branchless"} ELSE {"early_return"}

\* The build profiles tried: overflow checks only matter where a condition
\* makes the resolver subtract.
BuildProfiles(els) == IF HasCondition(els) THEN BOOLEAN ELSE {TRUE}

(***************************************************************************)
(* The state machine.                                                      *)
(***************************************************************************)
NoReturn == [ok |-> TRUE, chain |-> <<>>]

\* No earlier run has returned.
NoEarlier == [returned |-> FALSE, list |-> <<>>]

\* GameStatus::new(elements, history): the fields, then check() on the empty
\* acquired list; a graph whose check() panics yields no object.
Init ==
    /\ elements \in InitGraphs
    /\ check_can_create(elements) /\ check_final(elements)
    /\ order \in Orders(elements)
    /\ history \in Histories(elements)
    /\ overflow_checks \in BuildProfiles(elements)
    /\ std_search \in Toolchains(elements)
    /\ acquired_elements = CheckAcquired(elements, order, <<>>)
    /\ checks = 0
    /\ pc = "ready"
    /\ element_id = 0
    /\ element_to_combinations = EmptyMap
    /\ recursive = FALSE
    /\ ret = NoReturn
    /\ panic_at = ""
    /\ combinations = <<>>
    /\ working_acquired = <<>>
    /\ remaining_elements_to_create = EmptyMap
    /\ result = <<>>
    /\ earlier = NoEarlier
    /\ args = <<>>
    /\ value = <<>>

\* GameStatus::check() on the constructed object.
Check ==
    /\ pc = "ready"
    /\ checks < MaxChecks
    /\ acquired_elements' = CheckAcquired(elements, order, acquired_elements)
    /\ checks' = checks + 1
    /\ pc' = IF check_can_create(elements) /\ check_final(elements) THEN "ready" ELSE "panicked"
    /\ UNCHANGED <<elements, order, history, overflow_checks, std_search, obtainVars, finishVars,
                   result, auxVars>>

\* GameStatus::combine(&Combination(a, b)).
Combine ==
    /\ pc = "ready"
    /\ \E a \in DOMAIN elements, b \in DOMAIN elements :
           acquired_elements' = CombineAcquired(elements, order, acquired_elements, <<a, b>>)
    /\ UNCHANGED <<elements, order, history, overflow_checks, std_search, checks, pc, obtainVars,
                   finishVars, result, auxVars>>

\* obtain entering its loop with the flag already set.
ObtainStartRecursive ==
    /\ pc = "ready"
    /\ \E target \in DOMAIN elements : element_id' = target
    /\ element_to_combinations' = EmptyMap
    /\ recursive' = TRUE
    /\ pc' = "obtain_call"
    /\ UNCHANGED <<objVars, ret, panic_at, finishVars, result, auxVars>>

\* GameStatus::obtain(target) up to the loop (game_status.rs:215-217).
ObtainStart ==
    /\ pc = "ready"
    /\ \E target \in DOMAIN elements : element_id' = target
    /\ element_to_combinations' = EmptyMap
    /\ recursive' = FALSE
    /\ pc' = "obtain_call"
    /\ UNCHANGED <<objVars, ret, panic_at, finishVars, result, auxVars>>

\* The call of advance_one_level in the loop of obtain (game_status.rs:219).
ObtainCall ==
    /\ pc = "obtain_call"
    /\ \E r \in {advance_one_level(element_id, element_to_combinations, <<>>, EmptyMap, recursive)} :
          /\ element_to_combinations' = r.memo
          /\ ret' = [ok |-> r.ok, chain |-> r.chain]
          /\ pc' = IF r.panic THEN "panicked" ELSE "obtain_match"
          /\ panic_at' = r.failed
    /\ UNCHANGED <<objVars, element_id, recursive, finishVars, result, auxVars>>

\* The match on its result (game_status.rs:220-223).
ObtainMatch ==
    /\ pc = "obtain_match"
    /\ IF ret.ok
       THEN /\ recursive' = TRUE
            /\ pc' = "obtain_call"
            /\ UNCHANGED result
       ELSE /\ result' = ret.chain
            /\ pc' = "obtain_returned"
            /\ UNCHANGED recursive
    /\ UNCHANGED <<objVars, element_id, element_to_combinations, ret, panic_at, finishVars,
                   auxVars>>

\* GameStatus::finish_game up to the while loop (game_status.rs:228-236).
FinishStart ==
    /\ pc = "ready"
    /\ combinations' = <<>>
    /\ working_acquired' = acquired_elements
    /\ remaining_elements_to_create' = InitialRemaining(elements, acquired_elements)
    /\ pc' = "finish_while"
    /\ UNCHANGED <<objVars, obtainVars, result, auxVars>>

\* The test of the while loop (game_status.rs:238) and the return (269).
FinishWhile ==
    /\ pc = "finish_while"
    /\ IF DOMAIN remaining_elements_to_create = {}
       THEN /\ result' = combinations
            /\ pc' = "finish_returned"
       ELSE /\ pc' = "finish_sweep"
            /\ UNCHANGED result
    /\ UNCHANGED <<objVars, obtainVars, finishVars, auxVars>>

\* The body of the while loop (game_status.rs:239-266).
FinishSweep ==
    /\ pc = "finish_sweep"
    /\ Len(working_acquired) <= MaxWorkingLen
    /\ \E st \in {Sweep([combinations |-> combinations,
                           acquired |-> working_acquired,
                           remaining |-> remaining_elements_to_create])} :
          /\ combinations' = st.combinations
          /\ working_acquired' = st.acquired
          /\ remaining_elements_to_create' = st.remaining
    /\ pc' = "finish_while"
    /\ UNCHANGED <<objVars, obtainVars, result, auxVars>>

Next ==
    \/ Check
    \/ Combine
    \/ ObtainStart
    \/ ObtainCall
    \/ ObtainMatch
    \/ FinishStart
    \/ FinishWhile
    \/ FinishSweep

Spec == Init /\ [][Next]_vars

\* The program is one thread that keeps running: a loop that can take a step
\* takes it.
Fairness ==
    /\ WF_vars(ObtainCall)
    /\ WF_vars(ObtainMatch)
    /\ WF_vars(FinishWhile)
    /\ WF_vars(FinishSweep)

\* The graphs on which the loops are followed to their end: the catalogue's
\* graphs without conditions.
LoopGraphs ==
    {GraphABC, GraphCycle, GraphDiamond, GraphTwice, GraphUnsatisfiable, GraphFan}

FairInit == Init /\ elements \in LoopGraphs

FairSpec == FairInit /\ [][Next]_vars /\ Fairness

(***************************************************************************)
(* The program (src/src/main.rs).  main builds the GameStatus from the two *)
(* files with an empty acquired list, runs check() only when the history   *)
(* is not empty, and then executes one command.                            *)
(***************************************************************************)
\* The graph els with the stored can_create list of id replaced.
WithCanCreate(els, id, list) == [els EXCEPT ![id].can_create = list]

\* C = (A, B) where C, which is in no combination, stores a can_create list.
GraphUnlisted == WithCanCreate(GraphABC, 3, <<1>>)

\* C = (A, B) where A does not store C.
GraphMissing == WithCanCreate(GraphABC, 1, <<>>)

\* C = (A, B) where A stores B besides C.
GraphExtra == WithCanCreate(GraphABC, 1, <<2, 3>>)

\* 3 = (A, B), 4 = (3, A) where A stores its list as [4, 3].
GraphPermuted ==
    WithCanCreate(Graph(<<Prime, Prime, Made(<< <<1, 2>> >>), Made(<< <<3, 1>> >>)>>),
                  1, <<4, 3>>)

\* A prime and an element unlocked by Progress(1); no combination at all.
GraphLonely == Graph(<<Prime, Locked(<<>>, CondProgress(1))>>)

\* 2 is unlocked by Progress(0), i.e. by the prime; 3 by one of {2}.
GraphChain ==
    Graph(<<Prime, Locked(<<>>, CondProgress(0)), Locked(<<>>, CondElements(<<2>>, 1))>>)

\* The data files main is run on: they have not been validated.
MainGraphs ==
    Catalogue \cup {GraphUnlisted, GraphMissing, GraphExtra, GraphPermuted, GraphLonely,
                    GraphChain}

\* main.rs:100-108: the struct literal; acquired_elements is the default Vec.
MainInit ==
    /\ elements \in MainGraphs
    /\ order \in Orders(elements)
    /\ history \in Histories(elements)
    /\ overflow_checks \in BuildProfiles(elements)
    /\ std_search \in Toolchains(elements)
    /\ acquired_elements = <<>>
    /\ checks = 0
    /\ pc = "main_loaded"
    /\ element_id = 0
    /\ element_to_combinations = EmptyMap
    /\ recursive = FALSE
    /\ ret = NoReturn
    /\ panic_at = ""
    /\ combinations = <<>>
    /\ working_acquired = <<>>
    /\ remaining_elements_to_create = EmptyMap
    /\ result = <<>>
    /\ earlier = NoEarlier
    /\ args = <<>>
    /\ value = <<>>

\* main.rs:110-112: check() is called when the history is not empty.
MainStartup ==
    /\ pc = "main_loaded"
    /\ IF history # <<>>
       THEN /\ acquired_elements' = CheckAcquired(elements, order, acquired_elements)
            /\ checks' = checks + 1
            /\ pc' = IF check_can_create(elements) /\ check_final(elements)
                     THEN "main_command" ELSE "check_failed"
       ELSE /\ pc' = "main_command"
            /\ UNCHANGED <<acquired_elements, checks>>
    /\ UNCHANGED <<elements, order, history, overflow_checks, std_search, obtainVars, finishVars,
                   result, auxVars>>

\* main.rs:114-128: the Display command reads the data and returns.
MainDisplay ==
    /\ pc = "main_command"
    /\ pc' = "exited"
    /\ UNCHANGED <<objVars, obtainVars, finishVars, result, auxVars>>

\* main.rs:130-133: the Get command calls obtain on the element found.
MainGet ==
    /\ pc = "main_command"
    /\ \E target \in DOMAIN elements : element_id' = target
    /\ element_to_combinations' = EmptyMap
    /\ recursive' = FALSE
    /\ pc' = "obtain_call"
    /\ UNCHANGED <<objVars, ret, panic_at, finishVars, result, auxVars>>

\* main.rs:134-143: the list is displayed; without --javascript an empty list
\* is reported after assert!(data.acquired_elements.contains(&element.id)).
MainGetReport ==
    /\ pc = "obtain_returned"
    /\ \E javascript \in BOOLEAN :
           pc' = IF ~javascript /\ result = <<>> /\ ~Contains(acquired_elements, element_id)
                 THEN "assert_failed" ELSE "exited"
    /\ UNCHANGED <<objVars, obtainVars, finishVars, result, auxVars>>

\* main.rs:146-147: the Finish command calls finish_game.
MainFinish ==
    /\ pc = "main_command"
    /\ combinations' = <<>>
    /\ working_acquired' = acquired_elements
    /\ remaining_elements_to_create' = InitialRemaining(elements, acquired_elements)
    /\ pc' = "finish_while"
    /\ UNCHANGED <<objVars, obtainVars, result, auxVars>>

\* main.rs:148-156: the list is displayed.
MainFinishReport ==
    /\ pc = "finish_returned"
    /\ pc' = "exited"
    /\ UNCHANGED <<objVars, obtainVars, finishVars, result, auxVars>>

MainNext ==
    \/ MainStartup
    \/ MainDisplay
    \/ MainGet
    \/ ObtainCall
    \/ ObtainMatch
    \/ MainGetReport
    \/ MainFinish
    \/ FinishWhile
    \/ FinishSweep
    \/ MainFinishReport

MainSpec == MainInit /\ [][MainNext]_vars

(***************************************************************************)
(* Combination equality on its own (src/src/structures/mod.rs:40-45): two  *)
(* combinations are drawn and compared.                                     *)
(***************************************************************************)
\* The largest element id of the combinations compared.
MaxId == 4

EqCombinations == {<<a, b>> : a \in 1..MaxId, b \in 1..MaxId}

\* No object is loaded; the two operands of == are in args.
EqInit ==
    /\ args \in {<<c, d>> : c \in EqCombinations, d \in EqCombinations}
    /\ value = <<>>
    /\ pc = "eq_call"
    /\ elements = <<>>
    /\ order = <<>>
    /\ history = <<>>
    /\ overflow_checks = TRUE
    /\ std_search = "early_return"
    /\ acquired_elements = <<>>
    /\ checks = 0
    /\ element_id = 0
    /\ element_to_combinations = EmptyMap
    /\ recursive = FALSE
    /\ ret = NoReturn
    /\ panic_at = ""
    /\ combinations = <<>>
    /\ working_acquired = <<>>
    /\ remaining_elements_to_create = EmptyMap
    /\ result = <<>>
    /\ earlier = NoEarlier

\* <Combination as PartialEq>::eq(&args[1], &args[2]).
EqCall ==
    /\ pc = "eq_call"
    /\ value' = <<CombEq(args[1], args[2])>>
    /\ pc' = "eq_returned"
    /\ UNCHANGED <<objVars, obtainVars, finishVars, result, earlier, args>>

EqNext == EqCall

EqSpec == EqInit /\ [][EqNext]_vars

(***************************************************************************)
(* obtain run twice on the same object.  std's HashMap is seeded at random  *)
(* in every process, so the second run iterates over the element map in    *)
(* another order; the graph, the acquired list and the target are those of *)
(* the first run.                                                          *)
(***************************************************************************)
\* 3 = (A, B); 4 = (A, A) is also unlocked by Progress(3).
GraphRace ==
    Graph(<<Prime, Prime, Made(<< <<1, 2>> >>), Locked(<< <<1, 1>> >>, CondProgress(3))>>)

DetGraphs == {GraphABC, GraphTwice, GraphProgress, GraphElements, GraphRace}

DetInit ==
    /\ elements \in DetGraphs
    /\ check_can_create(elements) /\ check_final(elements)
    /\ order \in Orders(elements)
    /\ history = <<>>
    /\ overflow_checks \in BuildProfiles(elements)
    /\ std_search \in Toolchains(elements)
    /\ acquired_elements = CheckAcquired(elements, order, <<>>)
    /\ checks = 0
    /\ pc = "ready"
    /\ element_id = 0
    /\ element_to_combinations = EmptyMap
    /\ recursive = FALSE
    /\ ret = NoReturn
    /\ panic_at = ""
    /\ combinations = <<>>
    /\ working_acquired = <<>>
    /\ remaining_elements_to_create = EmptyMap
    /\ result = <<>>
    /\ earlier = NoEarlier
    /\ args = <<>>
    /\ value = <<>>

\* The list of the first run is kept and obtain (game_status.rs:215-217) is
\* entered again for the same target under another iteration order.
ObtainAgain ==
    /\ pc = "obtain_returned"
    /\ ~earlier.returned
    /\ earlier' = [returned |-> TRUE, list |-> result]
    /\ order' \in Orders(elements) \ {order}
    /\ element_to_combinations' = EmptyMap
    /\ recursive' = FALSE
    /\ pc' = "obtain_call"
    /\ UNCHANGED <<elements, history, acquired_elements, overflow_checks, std_search, checks,
                   element_id, ret, panic_at, finishVars, result, args, value>>

DetNext ==
    \/ ObtainStart
    \/ ObtainCall
    \/ ObtainMatch
    \/ ObtainAgain

DetSpec == DetInit /\ [][DetNext]_vars

(***************************************************************************)
(* combine with its argument kept: each call records the combination it    *)
(* was given in args.                                                      *)
(***************************************************************************)
\* GameStatus::combine(&Combination(a, b)) (game_status.rs:192-208).
CombineCall ==
    /\ pc = "ready"
    /\ \E a \in DOMAIN elements, b \in DOMAIN elements :
           /\ args' = <<a, b>>
           /\ acquired_elements' = CombineAcquired(elements, order, acquired_elements, <<a, b>>)
    /\ pc' = "combined"
    /\ UNCHANGED <<elements, order, history, overflow_checks, std_search, checks, obtainVars,
                   finishVars, result, earlier, value>>

\* The call has returned to its caller.
CombineReturn ==
    /\ pc = "combined"
    /\ pc' = "ready"
    /\ UNCHANGED <<objVars, obtainVars, finishVars, result, auxVars>>

CombineNext ==
    \/ CombineCall
    \/ CombineReturn

\* The graphs combine is called on: one product per pair, a product that is
\* an operand of later pairs, one pair with two products, and products that
\* conditions count.
CombineGraphs ==
    {GraphABC, GraphTwice, GraphShared, GraphElements, GraphThreshold}

CombineInit == Init /\ elements \in CombineGraphs

CombineSpec == CombineInit /\ [][CombineNext]_vars

(***************************************************************************)
(* Vocabulary of the properties.                                           *)
(***************************************************************************)
IsAcquired(id) == Contains(acquired_elements, id)

NoneOnly(els) == ~HasCondition(els)

RECURSIVE DerivableFrom(_, _)
\* The elements derivable from the set have: those produced by a combination
\* whose two operands are derivable.
DerivableFrom(els, have) ==
    LET more == have \cup
                {k \in DOMAIN els :
                    \E i \in 1..Len(els[k].combinations) :
                        /\ els[k].combinations[i][1] \in have
                        /\ els[k].combinations[i][2] \in have}
    IN IF more = have THEN have ELSE DerivableFrom(els, more)

PrimeIds(els) == {k \in DOMAIN els : els[k].prime}

AllDerivable(els) == DerivableFrom(els, PrimeIds(els)) = DOMAIN els

RECURSIVE RankedFrom(_, _)
\* The elements that can be ranked: all operands of all their combinations
\* are ranked before them.
RankedFrom(els, ranked) ==
    LET more == ranked \cup
                {k \in DOMAIN els :
                    \A i \in 1..Len(els[k].combinations) :
                        /\ els[k].combinations[i][1] \in ranked
                        /\ els[k].combinations[i][2] \in ranked}
    IN IF more = ranked THEN ranked ELSE RankedFrom(els, more)

\* No element depends on itself through production combinations.
Acyclic(els) == RankedFrom(els, {}) = DOMAIN els

(***************************************************************************)
(* Vocabulary of the properties on returned lists.                         *)
(***************************************************************************)
\* The elements a combination produces.
Products(els, c) == {k \in DOMAIN els : CombIn(els[k].combinations, c)}

RECURSIVE ReplayPrefix(_, _, _, _)
\* The ids held after the first n combinations of list have been performed
\* starting from have, the products of each combination being added.
ReplayPrefix(els, have, list, n) ==
    IF n = 0 THEN have
    ELSE ReplayPrefix(els, have, list, n - 1) \cup Products(els, list[n])

\* Every combination of list has both operands in have or among the products
\* of the combinations before it.
OperandsAvailable(els, have, list) ==
    \A i \in 1..Len(list) :
        /\ list[i][1] \in ReplayPrefix(els, have, list, i - 1)
        /\ list[i][2] \in ReplayPrefix(els, have, list, i - 1)

\* The acquired list is the one check() seeds on an empty list.
FreshlySeeded == acquired_elements = CheckAcquired(elements, order, <<>>)

\* id has the None condition and exactly one production combination, of two
\* prime elements.
SinglePrimeProduction(els, id) ==
    /\ ~els[id].prime
    /\ els[id].condition.type = "None"
    /\ Len(els[id].combinations) = 1
    /\ els[els[id].combinations[1][1]].prime
    /\ els[els[id].combinations[1][2]].prime

\* obtain is running or has ended.
InObtain == pc \in {"obtain_call", "obtain_match", "obtain_returned"}

\* An element that can never be acquired although other elements need it:
\* not prime, None condition, no production combination, non-empty can_create.
Unacquirable(els, acq, u) ==
    /\ ~els[u].prime
    /\ els[u].condition.type = "None"
    /\ els[u].combinations = <<>>
    /\ els[u].can_create # <<>>
    /\ ~Contains(acq, u)

(***************************************************************************)
(* Properties.                                                             *)
(***************************************************************************)
\* C1: on the graph X = (Y, prime1), Y = (X, prime2) with neither X nor Y
\* acquired, a started obtain(X) eventually returns, and returns the empty list.
C1_CycleObtainReturns ==
    (/\ elements = GraphCycle
     /\ pc = "obtain_call"
     /\ element_id = 3
     /\ ~IsAcquired(3) /\ ~IsAcquired(4))
    ~> (pc = "obtain_returned" /\ result = <<>>)

\* C2: on an acyclic graph with None conditions only, all of whose elements
\* are derivable from the primes, a started obtain(target) eventually returns,
\* with a non-empty list when the target is not acquired.
C2_AcyclicObtainReturns ==
    (/\ NoneOnly(elements) /\ Acyclic(elements) /\ AllDerivable(elements)
     /\ pc = "obtain_call")
    ~> (/\ pc = "obtain_returned"
        /\ (~IsAcquired(element_id) => result # <<>>))

\* C3: with an empty history, the list finish_game returns, replayed from the
\* acquired elements, acquires every element that combinations can derive
\* from them; on the graph A, B prime, C = (A, B) with a seeded acquired list
\* the list is exactly [(A, B)].
C3_FinishListDiscoversAll ==
    (pc = "finish_returned" /\ history = <<>>) =>
        /\ DerivableFrom(elements, Range(acquired_elements))
               \subseteq ReplayPrefix(elements, Range(acquired_elements), result, Len(result))
        /\ (elements = GraphABC /\ ~IsAcquired(3))
               => (Len(result) = 1 /\ CombEq(result[1], <<1, 2>>))

\* C4: on an acyclic graph with None conditions only, all of whose elements
\* are derivable from the primes, every combination of the list finish_game
\* returns has both operands initially acquired or produced by a combination
\* earlier in the list.
C4_FinishRecordsOnlyReady ==
    (/\ pc = "finish_returned"
     /\ NoneOnly(elements) /\ Acyclic(elements) /\ AllDerivable(elements)) =>
        OperandsAvailable(elements, Range(acquired_elements), result)

\* C5: on a graph with None conditions only, the list obtain(target) returns
\* is a derivation of the target: every combination has both operands prime,
\* acquired or produced by an earlier combination of the list, and the last
\* combination is one of the target's production combinations.
C5_ObtainListIsDerivation ==
    (pc = "obtain_returned" /\ NoneOnly(elements)) =>
        /\ OperandsAvailable(elements,
                             PrimeIds(elements) \cup Range(acquired_elements), result)
        /\ result # <<>> =>
               CombIn(elements[element_id].combinations, result[Len(result)])

\* A derivation of two steps or more has been returned.
C5_Witness ==
    /\ pc = "obtain_returned"
    /\ NoneOnly(elements)
    /\ Len(result) >= 2
    /\ ~IsAcquired(element_id)

\* C6: obtain of a prime element on a freshly seeded acquired list returns
\* the empty list: its first call of advance_one_level yields Err([]), it
\* does not panic, and the list returned is empty.
C6_PrimeObtainEmpty ==
    (InObtain \/ pc = "panicked") /\ elements[element_id].prime /\ FreshlySeeded =>
        /\ pc # "panicked"
        /\ pc = "obtain_match" => (~ret.ok /\ ret.chain = <<>> /\ ~recursive)
        /\ pc = "obtain_returned" => result = <<>>

\* obtain of a prime element has returned on a freshly seeded list.
C6_Witness ==
    /\ pc = "obtain_returned"
    /\ elements[element_id].prime
    /\ FreshlySeeded
    /\ result = <<>>

\* C7: obtain of a non-acquired element with the None condition and a single
\* production combination (A, B) of prime elements returns exactly [(A, B)]:
\* it does not panic, its second call of advance_one_level yields Err, and
\* the list returned holds that combination and nothing else.
C7_SingleProductionObtain ==
    /\ (InObtain \/ pc = "panicked")
    /\ SinglePrimeProduction(elements, element_id)
    /\ ~IsAcquired(element_id)
    => /\ pc # "panicked"
       /\ (pc = "obtain_match" /\ recursive) => ~ret.ok
       /\ pc = "obtain_returned" => result = <<elements[element_id].combinations[1]>>

\* obtain of such an element has returned a list of one combination.
C7_Witness ==
    /\ pc = "obtain_returned"
    /\ SinglePrimeProduction(elements, element_id)
    /\ ~IsAcquired(element_id)
    /\ Len(result) = 1

\* C8: the list finish_game returns holds no combination that is in the
\* history, in either operand order; on the graph A, B prime, C = (A, B)
\* with (A, B) in the history it is empty.
C8_FinishSkipsHistory ==
    pc = "finish_returned" =>
        /\ \A i \in 1..Len(result), j \in 1..Len(history) :
               ~(\/ result[i] = history[j]
                 \/ result[i] = <<history[j][2], history[j][1]>>)
        /\ (elements = GraphABC /\ history # <<>>) => result = <<>>

\* finish_game has returned a non-empty list although the history holds, with
\* its operands exchanged, a production combination whose operand is acquired.
C8_Witness ==
    /\ pc = "finish_returned"
    /\ result # <<>>
    /\ history # <<>>
    /\ \E k \in DOMAIN elements :
           /\ Contains(elements[k].combinations, <<history[1][2], history[1][1]>>)
           /\ ~Contains(elements[k].combinations, history[1])
    /\ CombinationContains(history[1], working_acquired)

\* C9: when the graph holds an element that can never be acquired, a started
\* finish_game eventually stops (it returns or reports a failure).
C9_FinishStopsOnUnsatisfiable ==
    (/\ pc = "finish_while"
     /\ \E u \in DOMAIN elements : Unacquirable(elements, working_acquired, u))
    ~> (pc \in {"finish_returned", "finish_failed", "panicked"})

\* C10: an element that only its Progress(total) condition can add is in the
\* acquired list (of the object or of finish_game) only if more than total
\* other distinct ids are in it.
C10_ProgressNeedsDistinct ==
    \A k \in DOMAIN elements :
        (elements[k].condition.type = "Progress" /\ elements[k].combinations = <<>>) =>
            /\ IsAcquired(k) =>
                   Cardinality(Range(acquired_elements) \ {k}) > elements[k].condition.total
            /\ Contains(working_acquired, k) =>
                   Cardinality(Range(working_acquired) \ {k}) > elements[k].condition.total

RECURSIVE ScanFrom(_, _, _, _, _)
\* The list add_unlocked_elements holds when its pass over the elements, run
\* on acq, reaches the element k.
ScanFrom(els, ord, i, acq, k) ==
    IF ord[i] = k THEN acq
    ELSE TheOne({ScanFrom(els, ord, i + 1, next, k) :
                    next \in {UnlockItem(els[ord[i]], acq)}})

AcquiredWhenScanned(els, ord, acq, k) == ScanFrom(els, ord, 1, acq, k)

\* C11: in the extension pass of a check(), at construction or on the
\* constructed object, an element with the condition Elements(ids, min) is
\* added if and only if, when it is scanned, at least min distinct ids of
\* the list are acquired.
C11_ThresholdIff ==
    pc = "ready" =>
        \A k \in DOMAIN elements, acq \in {<<>>, acquired_elements} :
            elements[k].condition.type = "Elements" =>
                LET at == AcquiredWhenScanned(elements, order,
                                              add_prime_elements(elements, order, acq), k)
                    ids == elements[k].condition.elements
                IN (UnlockItem(elements[k], at) # at)
                       <=> (Cardinality(Range(ids) \cap Range(at)) >= elements[k].condition.min)

(***************************************************************************)
(* Properties of the program's startup and commands (MainSpec).            *)
(***************************************************************************)
\* Some element stores a can_create list that is not, as a set, the set of
\* the elements that list it in a combination.
StoredMismatch(els) ==
    \E id \in DOMAIN els : Range(els[id].can_create) # Producers(els, id)

\* obtain or finish_game has been invoked.
Computing ==
    pc \in {"obtain_call", "obtain_match", "obtain_returned",
            "finish_while", "finish_sweep", "finish_returned"}

\* C12: once check() has run on a graph in which some stored can_create list
\* has an extra or a missing id, the program has stopped on the failed check.
C12_CheckerRejectsMismatch ==
    (checks >= 1 /\ StoredMismatch(elements)) => pc = "check_failed"

\* C13: check() does not fail on a graph in which every stored can_create
\* list holds, in any order, exactly the ids of the elements that list the
\* element in a combination.
C13_CheckerAcceptsSetEqual ==
    (checks >= 1 /\ ~StoredMismatch(elements)) => pc # "check_failed"

\* C14: with a non-empty history, when the command is about to run and from
\* then on, every element produced by a combination of the history is
\* acquired.
C14_HistoryReplayed ==
    (history # <<>> /\ (pc = "main_command" \/ Computing)) =>
        \A j \in 1..Len(history) :
            \A k \in Products(elements, history[j]) : IsAcquired(k)

\* C15: when obtain or finish_game has been invoked, check() has run and
\* every prime element is acquired.
C15_ValidatedAndSeeded ==
    Computing =>
        /\ checks >= 1
        /\ PrimeIds(elements) \subseteq Range(acquired_elements)

\* C16: when obtain has returned the empty list its target is acquired, and
\* the assertion of the Get command does not fail.
C16_EmptyMeansAcquired ==
    /\ (pc = "obtain_returned" /\ result = <<>>) => IsAcquired(element_id)
    /\ pc # "assert_failed"

(***************************************************************************)
(* Further properties of the GameStatus operations (Spec).                 *)
(***************************************************************************)
\* C17: no step removes an id from the acquired list of the object or from
\* the working list of finish_game.
C17_AcquiredOnlyGrows ==
    [][\A id \in DOMAIN elements :
           /\ Contains(acquired_elements, id) => Contains(acquired_elements', id)
           /\ Contains(working_acquired, id) => Contains(working_acquired', id)]_vars

\* The acquired list has been grown by combine() and run through check()
\* again, and a sweep of finish_game has grown its working list.
C17_Witness ==
    /\ pc = "finish_while"
    /\ checks >= 1
    /\ \E id \in DOMAIN elements : IsAcquired(id) /\ ~elements[id].prime
    /\ \E id \in DOMAIN elements : Contains(working_acquired, id) /\ ~IsAcquired(id)

\* id is not prime, has the None condition and no production combination.
DeadEnd(els, id) ==
    /\ ~els[id].prime
    /\ els[id].condition.type = "None"
    /\ els[id].combinations = <<>>

\* C20: obtain of a non-prime, non-acquired element with the None condition
\* and no production combination fails no assertion and returns the empty
\* list.
C20_DeadEndObtainEmpty ==
    /\ (InObtain \/ pc = "panicked")
    /\ DeadEnd(elements, element_id)
    /\ ~IsAcquired(element_id)
    => /\ pc # "panicked"
       /\ pc = "obtain_returned" => result = <<>>

\* C18: == on two combinations answers true exactly when they are the same
\* unordered pair of ids, whatever the order of the operands in either.
C18_EqualityUnordered ==
    pc = "eq_returned" =>
        value[1] = ({args[1][1], args[1][2]} = {args[2][1], args[2][2]})

\* Two combinations of distinct ids written in opposite orders compared equal.
C18_Witness ==
    /\ pc = "eq_returned"
    /\ args[1][1] # args[1][2]
    /\ args[2] = <<args[1][2], args[1][1]>>
    /\ value = <<TRUE>>

\* C19: for a fixed graph, acquired list and target, the list obtain returns
\* under one iteration order of the element map is the list it returned
\* under any other, Progress targets included.
C19_ObtainOrderIndependent ==
    (pc = "obtain_returned" /\ earlier.returned) => result = earlier.list

(***************************************************************************)
(* Properties of the resolver's condition branches (Spec).                 *)
(***************************************************************************)
\* The number of ids listed by the Elements condition of k that are in the
\* acquired list, as the resolver counts them (path.rs:66-73).
AlreadyAcquired(k) ==
    ElementsCandidatesFrom(elements, acquired_elements, elements[k].condition.elements,
                           1, elements[k].combinations, 0).already

\* obtain has been called, on the object as seeded and combined on, for a
\* non-acquired target with an Elements condition.
ThresholdTarget ==
    /\ InObtain \/ pc = "panicked"
    /\ checks = 0
    /\ elements[element_id].condition.type = "Elements"
    /\ ~elements[element_id].prime
    /\ ~IsAcquired(element_id)

\* C21: after seeding and any combine calls, when the resolver takes the
\* Elements branch for a non-acquired target, min exceeds the number of
\* listed ids already acquired: the subtraction does not underflow, the
\* difference is positive and the visit of the target does not abort.
C21_ThresholdPositive ==
    ThresholdTarget =>
        /\ elements[element_id].condition.min - AlreadyAcquired(element_id) > 0
        /\ ~(pc = "panicked" /\ element_id \notin DOMAIN element_to_combinations)

\* C22: when obtain has returned for a non-acquired target with the condition
\* Progress(total), performing the returned combinations in order from the
\* acquired elements leaves more than total distinct elements acquired.
C22_ProgressListUnlocks ==
    (/\ pc = "obtain_returned"
     /\ elements[element_id].condition.type = "Progress"
     /\ ~IsAcquired(element_id)) =>
        Cardinality(ReplayPrefix(elements, Range(acquired_elements), result, Len(result)))
            > elements[element_id].condition.total

\* No value occurs at two positions of the list.
NoDuplicate(s) == \A i, j \in 1..Len(s) : s[i] = s[j] => i = j

\* C23: neither the acquired list of the object nor the working list of
\* finish_game ever holds the same element id twice.
C23_AcquiredNoDuplicate ==
    NoDuplicate(acquired_elements) /\ NoDuplicate(working_acquired)

(***************************************************************************)
(* Properties of the loop over the candidates (Spec).                      *)
(***************************************************************************)
\* The operand o of a candidate of the target is satisfied as soon as it is
\* visited: it is prime or acquired, or has nothing left to produce.
SatisfiedAtOnce(o) ==
    /\ o # element_id
    /\ get_path_to_combinations(o).combs = <<>>
    /\ get_path_to_combinations(o).min = 0

CandidateSatisfied(c) == SatisfiedAtOnce(c[1]) /\ SatisfiedAtOnce(c[2])

RECURSIVE TakeSatisfied(_, _, _)
\* The first n candidates of combs, from position i on, whose two operands
\* are satisfied at once, in the order of combs.
TakeSatisfied(combs, i, n) ==
    IF n = 0 \/ i > Len(combs) THEN <<>>
    ELSE IF CandidateSatisfied(combs[i])
         THEN <<combs[i]>> \o TakeSatisfied(combs, i + 1, n - 1)
         ELSE TakeSatisfied(combs, i + 1, n)

\* obtain has returned for a target that had candidates, at least min of
\* which have both operands satisfied at once: the expansion of the target
\* completed in the first pass that examined its candidates.
CompletedAtOnce ==
    /\ pc = "obtain_returned"
    /\ element_id \in DOMAIN element_to_combinations
    /\ element_to_combinations[element_id].combs # <<>>
    /\ Cardinality({i \in 1..Len(element_to_combinations[element_id].combs) :
                       CandidateSatisfied(element_to_combinations[element_id].combs[i])})
           >= element_to_combinations[element_id].min

\* C24: in the pass in which the target's expansion completes, the
\* combinations appended for it are exactly the first min candidates, in the
\* order of its candidate list, whose two operands are both satisfied; no
\* other and no later candidate is appended.
C24_FirstSatisfiedCandidates ==
    CompletedAtOnce =>
        result = TakeSatisfied(element_to_combinations[element_id].combs, 1,
                               element_to_combinations[element_id].min)

\* C25: the list obtain returns holds no combination twice, two combinations
\* of the same two ids in either order being the same combination.
C25_ObtainListNonRedundant ==
    pc = "obtain_returned" =>
        \A i, j \in 1..Len(result) :
            {result[i][1], result[i][2]} = {result[j][1], result[j][2]} => i = j

\* C26: no call of advance_one_level of an obtain run is entered with
\* recursive = true for an element without a memo entry: the assertion made
\* on the first visit of an element never fails.
C26_FirstVisitNotRecursive ==
    panic_at # "assert!(!recursive)"

\* obtain is in a recursive pass and an operand of the target has been
\* visited for the first time inside an earlier recursive call: its memo
\* entry is stored and it has candidates of its own.
C26_Witness ==
    /\ pc = "obtain_call"
    /\ recursive
    /\ \E o \in DOMAIN element_to_combinations :
           /\ o # element_id
           /\ element_to_combinations[o].combs # <<>>
           /\ \E i \in 1..Len(element_to_combinations[element_id].combs) :
                  o \in Range(element_to_combinations[element_id].combs[i])

(***************************************************************************)
(* Termination of finish_game (FairSpec).                                  *)
(***************************************************************************)
\* C27: on a graph with None conditions only, all of whose elements are
\* derivable from the primes, a started finish_game eventually returns:
\* after finitely many sweeps the remaining-work map is empty.
C27_FinishTerminates ==
    (/\ pc = "finish_while"
     /\ NoneOnly(elements) /\ AllDerivable(elements))
    ~> (pc = "finish_returned" /\ DOMAIN remaining_elements_to_create = {})

(***************************************************************************)
(* Further properties of the operations on the acquired list.              *)
(***************************************************************************)
\* C28: when check() has run once on the loaded object, the set of ids it
\* acquired is the set check() acquires under every other iteration order
\* of the element map.
C28_CheckOrderIndependent ==
    (pc = "main_command" /\ checks = 1) =>
        \A other \in AllOrders(elements) :
            Range(CheckAcquired(elements, other, <<>>)) = Range(acquired_elements)

\* C29: a call combine(c) leaves the acquired list holding its previous
\* entries followed by the ids, not acquired before, of the elements one of
\* whose combinations equals c in either operand order, each once; the set
\* is unchanged when c produces nothing and is the one combine of the
\* exchanged operands gives; the graph and the history are not changed.
C29_CombineEffect ==
    [][pc' = "combined" =>
          LET produced ==
                  {k \in DOMAIN elements :
                      \E i \in 1..Len(elements[k].combinations) :
                          {elements[k].combinations[i][1], elements[k].combinations[i][2]}
                              = {args'[1], args'[2]}}
              fresh == produced \ Range(acquired_elements)
          IN /\ Range(acquired_elements') = Range(acquired_elements) \cup produced
             /\ Len(acquired_elements') = Len(acquired_elements) + Cardinality(fresh)
             /\ SubSeq(acquired_elements', 1, Len(acquired_elements)) = acquired_elements
             /\ produced = {} => acquired_elements' = acquired_elements
             /\ Range(CombineAcquired(elements, order, acquired_elements,
                                      <<args'[2], args'[1]>>))
                    = Range(acquired_elements')
             /\ elements' = elements
             /\ history' = history]_vars

\* combine has been called with the operands of a production combination
\* exchanged and has acquired the element it produces; another call has
\* been made before, so that the list held ids that were not seeded.
C29_Witness ==
    /\ pc = "combined"
    /\ args[1] # args[2]
    /\ \E k \in DOMAIN elements :
           /\ Contains(elements[k].combinations, <<args[2], args[1]>>)
           /\ ~Contains(elements[k].combinations, args)
           /\ IsAcquired(k)
    /\ \E k \in DOMAIN elements :
           IsAcquired(k) /\ ~elements[k].prime /\ ~CombIn(elements[k].combinations, args)
====
